---- MODULE Spec2Model ----
(***************************************************************************)
(* Settings routes of the supply back end (src/routes/settings.js): two    *)
(* in-memory registries, categories and branches, each with list, get,     *)
(* create, update, delete and toggle-status handlers.                      *)
(*                                                                         *)
(* Text is a sequence of one-character strings, so that the regular        *)
(* expression, the length limits and toLowerCase are computed character by *)
(* character.  The JavaScript value undefined is the one-element sequence  *)
(* Undefined, whose element is no character.  Request bodies carry text    *)
(* fields or leave them out.                                               *)
(***************************************************************************)
EXTENDS Naturals, Sequences, FiniteSets

\* ---------------------------------------------------------------- bounds
\* Date.now() when the module is loaded (any value whose decimal string is
\* none of the seeded ids '1'..'5').
ClockStart == 10
\* Number of milliseconds the clock may advance once requests are served.
MaxTicks == 1
\* Number of requests handled in a run.
MaxRequests == 3
\* Number of requests handled in a run that follows every request closely.
FewRequests == 2
\* Number of requests that may wait for their handler at one time.
MaxInflight == 2

\* The module is loaded within ClockStart and ClockStart + 1; the server
\* takes requests later than that.
ServeStart == ClockStart + 2

MaxTime == ServeStart + MaxTicks

\* ------------------------------------------------------------------ text
Undefined == <<"undefined">>

\* JavaScript truthiness of a text field: undefined and '' are falsy.
Truthy(s) == s # Undefined /\ s # <<>>

\* x || undefined
OrUndefined(s) == IF Truthy(s) THEN s ELSE Undefined

\* express-validator turns the field into a string first: undefined -> ''.
Str(s) == IF s = Undefined THEN <<>> ELSE s

UpperToLower ==
  [c \in {"A","B","C","D","E","F","G","H","I","J","K","L","M",
          "N","O","P","Q","R","S","T","U","V","W","X","Y","Z"} |->
     CASE c = "A" -> "a" [] c = "B" -> "b" [] c = "C" -> "c" [] c = "D" -> "d"
       [] c = "E" -> "e" [] c = "F" -> "f" [] c = "G" -> "g" [] c = "H" -> "h"
       [] c = "I" -> "i" [] c = "J" -> "j" [] c = "K" -> "k" [] c = "L" -> "l"
       [] c = "M" -> "m" [] c = "N" -> "n" [] c = "O" -> "o" [] c = "P" -> "p"
       [] c = "Q" -> "q" [] c = "R" -> "r" [] c = "S" -> "s" [] c = "T" -> "t"
       [] c = "U" -> "u" [] c = "V" -> "v" [] c = "W" -> "w" [] c = "X" -> "x"
       [] c = "Y" -> "y" [] c = "Z" -> "z"]

LowerLetters == {UpperToLower[c] : c \in DOMAIN UpperToLower}

Digits == {"0","1","2","3","4","5","6","7","8","9"}

\* String.prototype.toLowerCase
ToLowerCase(s) ==
  [i \in 1..Len(s) |-> IF s[i] \in DOMAIN UpperToLower THEN UpperToLower[s[i]] ELSE s[i]]

\* MatchesValuePattern with the pattern made case-insensitive
\* (/^[a-z0-9-]+$/i).
MatchesValuePatternAnyCase(s) ==
  /\ Len(s) >= 1
  /\ \A i \in 1..Len(s) :
       s[i] \in LowerLetters \cup DOMAIN UpperToLower \cup Digits \cup {"-"}

\* /^[a-z0-9-]+$/
MatchesValuePattern(s) ==
  /\ Len(s) >= 1
  /\ \A i \in 1..Len(s) : s[i] \in LowerLetters \cup Digits \cup {"-"}

\* Number.prototype.toString: the decimal digits, most significant first.
DigitChar == <<"0","1","2","3","4","5","6","7","8","9">>

RECURSIVE ToString(_)
ToString(n) ==
  IF n < 10 THEN <<DigitChar[n + 1]>>
  ELSE Append(ToString(n \div 10), DigitChar[(n % 10) + 1])

\* Date.prototype.toISOString renders an instant in fields of fixed width,
\* zero padded, most significant first.  The model keeps that shape for the
\* millisecond count: IsoWidth zero-padded decimal digits followed by 'Z'.
IsoWidth == 3

RECURSIVE Digs(_, _)
Digs(n, w) ==
  IF w = 0 THEN <<>> ELSE Append(Digs(n \div 10, w - 1), DigitChar[(n % 10) + 1])

ToISOString(t) == Append(Digs(t, IsoWidth), "Z")

\* Order of two texts as JavaScript compares strings (by code unit); used
\* on timestamps, whose characters are digits and 'Z'.
CharRank(c) == IF c \in Digits THEN CHOOSE k \in 0..9 : DigitChar[k + 1] = c ELSE 10

RECURSIVE StrLess(_, _)
StrLess(a, b) ==
  IF b = <<>> THEN FALSE
  ELSE IF a = <<>> THEN TRUE
  ELSE IF Head(a) # Head(b) THEN CharRank(Head(a)) < CharRank(Head(b))
  ELSE StrLess(Tail(a), Tail(b))

Repeat(c, n) == [i \in 1..n |-> c]

\* ------------------------------------------------------------- seed data
\* The k-th of the 14 evaluations of new Date() while the module is loaded,
\* when the clock ticks once before the tickAt-th evaluation (tickAt = 0: no
\* tick).
LoadTime(k, tickAt) == IF tickAt # 0 /\ k >= tickAt THEN ClockStart + 1 ELSE ClockStart

\* Where the clock ticks while the module is loaded: not at all, or between
\* the two evaluations of the first category.
LoadTickAt == {0, 2}

SeedCategories(tickAt) == <<
  \* '1', 'Frozen Products', 'frozen-products', 'Products that need to be kept frozen'
  [_id |-> <<"1">>,
   name |-> <<"F","r","o","z","e","n"," ","P","r","o","d","u","c","t","s">>,
   value |-> <<"f","r","o","z","e","n","-","p","r","o","d","u","c","t","s">>,
   label |-> <<"F","r","o","z","e","n"," ","P","r","o","d","u","c","t","s">>,
   description |-> <<"P","r","o","d","u","c","t","s"," ","t","h","a","t"," ","n","e","e","d"," ","t","o"," ","b","e"," ","k","e","p","t"," ","f","r","o","z","e","n">>,
   isActive |-> TRUE,
   createdAt |-> ToISOString(LoadTime(1, tickAt)),
   updatedAt |-> ToISOString(LoadTime(2, tickAt))],
  \* '2', 'Main Products', 'main-products', 'Primary food products'
  [_id |-> <<"2">>,
   name |-> <<"M","a","i","n"," ","P","r","o","d","u","c","t","s">>,
   value |-> <<"m","a","i","n","-","p","r","o","d","u","c","t","s">>,
   label |-> <<"M","a","i","n"," ","P","r","o","d","u","c","t","s">>,
   description |-> <<"P","r","i","m","a","r","y"," ","f","o","o","d"," ","p","r","o","d","u","c","t","s">>,
   isActive |-> TRUE,
   createdAt |-> ToISOString(LoadTime(3, tickAt)),
   updatedAt |-> ToISOString(LoadTime(4, tickAt))],
  \* '3', 'Desserts and Drinks', 'desserts-drinks', 'Sweet treats and beverages'
  [_id |-> <<"3">>,
   name |-> <<"D","e","s","s","e","r","t","s"," ","a","n","d"," ","D","r","i","n","k","s">>,
   value |-> <<"d","e","s","s","e","r","t","s","-","d","r","i","n","k","s">>,
   label |-> <<"D","e","s","s","e","r","t","s"," ","a","n","d"," ","D","r","i","n","k","s">>,
   description |-> <<"S","w","e","e","t"," ","t","r","e","a","t","s"," ","a","n","d"," ","b","e","v","e","r","a","g","e","s">>,
   isActive |-> TRUE,
   createdAt |-> ToISOString(LoadTime(5, tickAt)),
   updatedAt |-> ToISOString(LoadTime(6, tickAt))],
  \* '4', 'Packaging Materials', 'packaging-materials', 'Materials for packaging products'
  [_id |-> <<"4">>,
   name |-> <<"P","a","c","k","a","g","i","n","g"," ","M","a","t","e","r","i","a","l","s">>,
   value |-> <<"p","a","c","k","a","g","i","n","g","-","m","a","t","e","r","i","a","l","s">>,
   label |-> <<"P","a","c","k","a","g","i","n","g"," ","M","a","t","e","r","i","a","l","s">>,
   description |-> <<"M","a","t","e","r","i","a","l","s"," ","f","o","r"," ","p","a","c","k","a","g","i","n","g"," ","p","r","o","d","u","c","t","s">>,
   isActive |-> TRUE,
   createdAt |-> ToISOString(LoadTime(7, tickAt)),
   updatedAt |-> ToISOString(LoadTime(8, tickAt))],
  \* '5', 'Cleaning Materials', 'cleaning-materials', 'Cleaning supplies and materials'
  [_id |-> <<"5">>,
   name |-> <<"C","l","e","a","n","i","n","g"," ","M","a","t","e","r","i","a","l","s">>,
   value |-> <<"c","l","e","a","n","i","n","g","-","m","a","t","e","r","i","a","l","s">>,
   label |-> <<"C","l","e","a","n","i","n","g"," ","M","a","t","e","r","i","a","l","s">>,
   description |-> <<"C","l","e","a","n","i","n","g"," ","s","u","p","p","l","i","e","s"," ","a","n","d"," ","m","a","t","e","r","i","a","l","s">>,
   isActive |-> TRUE,
   createdAt |-> ToISOString(LoadTime(9, tickAt)),
   updatedAt |-> ToISOString(LoadTime(10, tickAt))] >>

SeedBranches(tickAt) == <<
  \* '1', 'Main Branch', 'Primary restaurant location', '123 Main Street, Seoul', '+82-2-1234-5678', 'main@restaurant.com'
  [_id |-> <<"1">>,
   name |-> <<"M","a","i","n"," ","B","r","a","n","c","h">>,
   description |-> <<"P","r","i","m","a","r","y"," ","r","e","s","t","a","u","r","a","n","t"," ","l","o","c","a","t","i","o","n">>,
   address |-> <<"1","2","3"," ","M","a","i","n"," ","S","t","r","e","e","t",","," ","S","e","o","u","l">>,
   phone |-> <<"+","8","2","-","2","-","1","2","3","4","-","5","6","7","8">>,
   email |-> <<"m","a","i","n","@","r","e","s","t","a","u","r","a","n","t",".","c","o","m">>,
   isActive |-> TRUE,
   createdAt |-> ToISOString(LoadTime(11, tickAt)),
   updatedAt |-> ToISOString(LoadTime(12, tickAt))],
  \* '2', 'Downtown Branch', 'Downtown location', '456 Downtown Ave, Seoul', '+82-2-2345-6789', 'downtown@restaurant.com'
  [_id |-> <<"2">>,
   name |-> <<"D","o","w","n","t","o","w","n"," ","B","r","a","n","c","h">>,
   description |-> <<"D","o","w","n","t","o","w","n"," ","l","o","c","a","t","i","o","n">>,
   address |-> <<"4","5","6"," ","D","o","w","n","t","o","w","n"," ","A","v","e",","," ","S","e","o","u","l">>,
   phone |-> <<"+","8","2","-","2","-","2","3","4","5","-","6","7","8","9">>,
   email |-> <<"d","o","w","n","t","o","w","n","@","r","e","s","t","a","u","r","a","n","t",".","c","o","m">>,
   isActive |-> TRUE,
   createdAt |-> ToISOString(LoadTime(13, tickAt)),
   updatedAt |-> ToISOString(LoadTime(14, tickAt))] >>
\* ----------------------------------------------------------------- state
VARIABLES
  categories,      \* let categories: the category collection, in order
  branches,        \* let branches: the branch collection, in order
  now,             \* the wall clock, in milliseconds
  response,        \* the response to the request handled last
  usedCategoryIds, \* history: every _id a category was ever given
  usedBranchIds,   \* history: every _id a branch was ever given
  lastToggle,      \* history: the toggle handled last on an id, if nothing
                   \* else was requested on that id since
  handled,         \* number of requests handled so far
  inflight         \* the requests received whose handler has not run yet

vars == <<categories, branches, now, response, usedCategoryIds, usedBranchIds,
          lastToggle, handled, inflight>>

\* ------------------------------------------------------------- responses
\* res.status(s).json({message, errors, <record or list>, total})
Reply(status, message, errors, records, total) ==
  [status |-> status, message |-> message, errors |-> errors,
   records |-> records, total |-> total]

NoReply == Reply(0, "", <<>>, <<>>, <<>>)

\* Array.prototype.findIndex on _id: the first index, 0 for -1.
FindIndex(coll, id) ==
  IF \E i \in 1..Len(coll) : coll[i]._id = id
  THEN CHOOSE i \in 1..Len(coll) :
         /\ coll[i]._id = id
         /\ \A j \in 1..(i - 1) : coll[j]._id # id
  ELSE 0

\* FilterActive without its predicate: the whole collection.
FilterNothing(coll) == coll

\* Array.prototype.filter(r => r.isActive)
RECURSIVE FilterActive(_)
FilterActive(coll) ==
  IF coll = <<>> THEN <<>>
  ELSE IF Head(coll).isActive THEN <<Head(coll)>> \o FilterActive(Tail(coll))
  ELSE FilterActive(Tail(coll))

\* Splice without the delete count (splice(index)): removes the record at
\* index and every record after it.
SpliceToEnd(coll, index) == SubSeq(coll, 1, index - 1)

\* Array.prototype.splice(index, 1)
Splice(coll, index) ==
  [i \in 1..(Len(coll) - 1) |-> IF i < index THEN coll[i] ELSE coll[i + 1]]

\* One validator of a chain: an entry of errors.array() when it fails.
Check(ok, path, msg) == IF ok THEN <<>> ELSE <<[path |-> path, msg |-> msg]>>

\* .isLength({ max })
IsLengthMax(s, max) == Len(Str(s)) <= max

\* .notEmpty()
NotEmpty(s) == Str(s) # <<>>

\* .optional(): the chain is skipped when the field is undefined.
\* .optional({ checkFalsy: true }): skipped when the field is falsy.
Optional(s, errs) == IF s = Undefined THEN <<>> ELSE errs

OptionalFalsy(s, errs) == IF Truthy(s) THEN errs ELSE <<>>

\* ------------------------------------------------------------ categories
\* GET /categories
ListCategories ==
  /\ handled < MaxRequests
  /\ handled' = handled + 1
  /\ response' = Reply(200, "", <<>>, FilterActive(categories),
                       <<Len(FilterActive(categories))>>)
  /\ UNCHANGED <<categories, branches, now, usedCategoryIds, usedBranchIds,
                 lastToggle>>

\* GET /categories/all
ListAllCategories ==
  /\ handled < MaxRequests
  /\ handled' = handled + 1
  /\ response' = Reply(200, "", <<>>, categories, <<Len(categories)>>)
  /\ UNCHANGED <<categories, branches, now, usedCategoryIds, usedBranchIds,
                 lastToggle>>

\* GET /categories/:id: the reply
GetCategoryReply(coll, id) ==
  IF FindIndex(coll, id) = 0
  THEN Reply(404, "Category not found", <<>>, <<>>, <<>>)
  ELSE Reply(200, "", <<>>, <<coll[FindIndex(coll, id)]>>, <<>>)

\* The history of toggles forgets an id when another request names it.
ForgetToggle(reg, id) ==
  IF lastToggle # <<>> /\ lastToggle[1].reg = reg /\ lastToggle[1].id = id
  THEN <<>> ELSE lastToggle

GetCategory(id) ==
  /\ handled < MaxRequests
  /\ handled' = handled + 1
  /\ response' = GetCategoryReply(categories, id)
  /\ lastToggle' = ForgetToggle("categories", id)
  /\ UNCHANGED <<categories, branches, now, usedCategoryIds, usedBranchIds>>

\* CreateCategoryErrors that stops at the first field found invalid (name,
\* then value, then description).
CreateCategoryErrorsFirstField(body) ==
  IF ~(NotEmpty(body.name) /\ IsLengthMax(body.name, 100)) THEN
    Check(NotEmpty(body.name), "name", "Category name is required")
    \o Check(IsLengthMax(body.name, 100), "name",
             "Category name cannot exceed 100 characters")
  ELSE IF ~(NotEmpty(body.value) /\ MatchesValuePattern(Str(body.value))) THEN
    Check(NotEmpty(body.value), "value", "Category value is required")
    \o Check(MatchesValuePattern(Str(body.value)), "value",
             "Category value must contain only lowercase letters, numbers, and hyphens")
  ELSE
    OptionalFalsy(body.description,
      Check(IsLengthMax(body.description, 500), "description",
            "Description cannot exceed 500 characters"))

\* POST /categories: the validation chains
CreateCategoryErrors(body) ==
  Check(NotEmpty(body.name), "name", "Category name is required")
  \o Check(IsLengthMax(body.name, 100), "name",
           "Category name cannot exceed 100 characters")
  \o Check(NotEmpty(body.value), "value", "Category value is required")
  \o Check(MatchesValuePattern(Str(body.value)), "value",
           "Category value must contain only lowercase letters, numbers, and hyphens")
  \o OptionalFalsy(body.description,
       Check(IsLengthMax(body.description, 500), "description",
             "Description cannot exceed 500 characters"))

\* CategoryValueExists looking at the active records only.
CategoryValueExistsAmongActive(coll, value) ==
  \E i \in 1..Len(coll) : coll[i].isActive /\ coll[i].value = value

\* categories.some(cat => cat.value === value)
CategoryValueExists(coll, value) ==
  \E i \in 1..Len(coll) : coll[i].value = value

\* NewCategory with the two time stamps read in the other order (updatedAt
\* first, createdAt second).
NewCategoryStampedBackwards(body, t0, t1, t2) ==
  [_id |-> ToString(t0),
   name |-> body.name,
   value |-> body.value,
   label |-> body.name,
   description |-> OrUndefined(body.description),
   isActive |-> TRUE,
   createdAt |-> ToISOString(t2),
   updatedAt |-> ToISOString(t1)]

\* const newCategory = {...}
NewCategory(body, t0, t1, t2) ==
  [_id |-> ToString(t0),
   name |-> body.name,
   value |-> body.value,
   label |-> body.name,
   description |-> OrUndefined(body.description),
   isActive |-> TRUE,
   createdAt |-> ToISOString(t1),
   updatedAt |-> ToISOString(t2)]

\* POST /categories
CreateCategory(body) ==
  /\ handled < MaxRequests
  /\ handled' = handled + 1
  /\ IF CreateCategoryErrors(body) # <<>> THEN
       /\ response' = Reply(400, "Validation failed", CreateCategoryErrors(body), <<>>, <<>>)
       /\ UNCHANGED <<categories, branches, now, usedCategoryIds, usedBranchIds,
                      lastToggle>>
     ELSE IF CategoryValueExists(categories, body.value) THEN
       /\ response' = Reply(400, "Category value already exists", <<>>, <<>>, <<>>)
       /\ UNCHANGED <<categories, branches, now, usedCategoryIds, usedBranchIds,
                      lastToggle>>
     ELSE
       /\ \E t1 \in now..MaxTime : \E t2 \in t1..MaxTime :
            /\ categories' = Append(categories, NewCategory(body, now, t1, t2))
            /\ response' = Reply(201, "Category created successfully", <<>>,
                                 <<NewCategory(body, now, t1, t2)>>, <<>>)
            /\ now' = t2
       /\ usedCategoryIds' = usedCategoryIds \cup {ToString(now)}
       /\ UNCHANGED <<branches, usedBranchIds, lastToggle>>

\* PUT /categories/:id: the validation chains
UpdateCategoryErrors(body) ==
  Optional(body.name,
    Check(NotEmpty(body.name), "name", "Category name cannot be empty")
    \o Check(IsLengthMax(body.name, 100), "name",
             "Category name cannot exceed 100 characters"))
  \o Optional(body.value,
       Check(NotEmpty(body.value), "value", "Category value cannot be empty")
       \o Check(MatchesValuePattern(Str(body.value)), "value",
                "Category value must contain only lowercase letters, numbers, and hyphens"))
  \o OptionalFalsy(body.description,
       Check(IsLengthMax(body.description, 500), "description",
             "Description cannot exceed 500 characters"))

\* value && categories.some(cat => cat.value === value && cat._id !== req.params.id)
CategoryValueTaken(coll, id, value) ==
  /\ Truthy(value)
  /\ \E i \in 1..Len(coll) : coll[i].value = value /\ coll[i]._id # id

\* UpdatedCategory that overwrites the name and leaves the label
\* (...(name && { name })).
UpdatedCategoryKeepsLabel(cat, body, t) ==
  [_id |-> cat._id,
   name |-> IF Truthy(body.name) THEN body.name ELSE cat.name,
   value |-> IF Truthy(body.value) THEN body.value ELSE cat.value,
   label |-> cat.label,
   description |-> IF body.description # Undefined THEN body.description
                   ELSE cat.description,
   isActive |-> cat.isActive,
   createdAt |-> cat.createdAt,
   updatedAt |-> ToISOString(t)]

\* UpdatedCategory with the description merged only when it is truthy
\* (...(description && { description })).
UpdatedCategoryTruthyDescription(cat, body, t) ==
  [_id |-> cat._id,
   name |-> IF Truthy(body.name) THEN body.name ELSE cat.name,
   value |-> IF Truthy(body.value) THEN body.value ELSE cat.value,
   label |-> IF Truthy(body.name) THEN body.name ELSE cat.label,
   description |-> IF Truthy(body.description) THEN body.description
                   ELSE cat.description,
   isActive |-> cat.isActive,
   createdAt |-> cat.createdAt,
   updatedAt |-> ToISOString(t)]

\* const updatedCategory = {...}
UpdatedCategory(cat, body, t) ==
  [_id |-> cat._id,
   name |-> IF Truthy(body.name) THEN body.name ELSE cat.name,
   value |-> IF Truthy(body.value) THEN body.value ELSE cat.value,
   label |-> IF Truthy(body.name) THEN body.name ELSE cat.label,
   description |-> IF body.description # Undefined THEN body.description
                   ELSE cat.description,
   isActive |-> cat.isActive,
   createdAt |-> cat.createdAt,
   updatedAt |-> ToISOString(t)]

\* UpdateCategory that looks the id up before it reads the validation result.
UpdateCategoryFindFirst(id, body) ==
  /\ handled < MaxRequests
  /\ handled' = handled + 1
  /\ lastToggle' = ForgetToggle("categories", id)
  /\ IF FindIndex(categories, id) = 0 THEN
       /\ response' = Reply(404, "Category not found", <<>>, <<>>, <<>>)
       /\ UNCHANGED <<categories, branches, now, usedCategoryIds, usedBranchIds>>
     ELSE IF UpdateCategoryErrors(body) # <<>> THEN
       /\ response' = Reply(400, "Validation failed", UpdateCategoryErrors(body), <<>>, <<>>)
       /\ UNCHANGED <<categories, branches, now, usedCategoryIds, usedBranchIds>>
     ELSE IF CategoryValueTaken(categories, id, body.value) THEN
       /\ response' = Reply(400, "Category value already exists", <<>>, <<>>, <<>>)
       /\ UNCHANGED <<categories, branches, now, usedCategoryIds, usedBranchIds>>
     ELSE
       /\ categories' = [categories EXCEPT ![FindIndex(categories, id)] =
                           UpdatedCategory(@, body, now)]
       /\ response' = Reply(200, "Category updated successfully", <<>>,
                            <<UpdatedCategory(categories[FindIndex(categories, id)], body, now)>>,
                            <<>>)
       /\ UNCHANGED <<branches, now, usedCategoryIds, usedBranchIds>>

\* UpdateCategory with the merge written before the uniqueness check.
UpdateCategoryWriteFirst(id, body) ==
  /\ handled < MaxRequests
  /\ handled' = handled + 1
  /\ lastToggle' = ForgetToggle("categories", id)
  /\ IF UpdateCategoryErrors(body) # <<>> THEN
       /\ response' = Reply(400, "Validation failed", UpdateCategoryErrors(body), <<>>, <<>>)
       /\ UNCHANGED <<categories, branches, now, usedCategoryIds, usedBranchIds>>
     ELSE IF FindIndex(categories, id) = 0 THEN
       /\ response' = Reply(404, "Category not found", <<>>, <<>>, <<>>)
       /\ UNCHANGED <<categories, branches, now, usedCategoryIds, usedBranchIds>>
     ELSE
       /\ categories' = [categories EXCEPT ![FindIndex(categories, id)] =
                           UpdatedCategory(@, body, now)]
       /\ response' =
            IF CategoryValueTaken(categories, id, body.value)
            THEN Reply(400, "Category value already exists", <<>>, <<>>, <<>>)
            ELSE Reply(200, "Category updated successfully", <<>>,
                       <<UpdatedCategory(categories[FindIndex(categories, id)], body, now)>>,
                       <<>>)
       /\ UNCHANGED <<branches, now, usedCategoryIds, usedBranchIds>>

\* PUT /categories/:id
UpdateCategory(id, body) ==
  /\ handled < MaxRequests
  /\ handled' = handled + 1
  /\ lastToggle' = ForgetToggle("categories", id)
  /\ IF UpdateCategoryErrors(body) # <<>> THEN
       /\ response' = Reply(400, "Validation failed", UpdateCategoryErrors(body), <<>>, <<>>)
       /\ UNCHANGED <<categories, branches, now, usedCategoryIds, usedBranchIds>>
     ELSE IF FindIndex(categories, id) = 0 THEN
       /\ response' = Reply(404, "Category not found", <<>>, <<>>, <<>>)
       /\ UNCHANGED <<categories, branches, now, usedCategoryIds, usedBranchIds>>
     ELSE IF CategoryValueTaken(categories, id, body.value) THEN
       /\ response' = Reply(400, "Category value already exists", <<>>, <<>>, <<>>)
       /\ UNCHANGED <<categories, branches, now, usedCategoryIds, usedBranchIds>>
     ELSE
       /\ categories' = [categories EXCEPT ![FindIndex(categories, id)] =
                           UpdatedCategory(@, body, now)]
       /\ response' = Reply(200, "Category updated successfully", <<>>,
                            <<UpdatedCategory(categories[FindIndex(categories, id)], body, now)>>,
                            <<>>)
       /\ UNCHANGED <<branches, now, usedCategoryIds, usedBranchIds>>

\* DeleteCategory as a soft delete: the record stays, inactive.
DeleteCategorySoft(id) ==
  /\ handled < MaxRequests
  /\ handled' = handled + 1
  /\ lastToggle' = ForgetToggle("categories", id)
  /\ IF FindIndex(categories, id) = 0 THEN
       /\ response' = Reply(404, "Category not found", <<>>, <<>>, <<>>)
       /\ UNCHANGED <<categories, branches, now, usedCategoryIds, usedBranchIds>>
     ELSE
       /\ categories' = [categories EXCEPT ![FindIndex(categories, id)].isActive = FALSE]
       /\ response' = Reply(200, "Category deleted successfully", <<>>, <<>>, <<>>)
       /\ UNCHANGED <<branches, now, usedCategoryIds, usedBranchIds>>

\* DELETE /categories/:id
DeleteCategory(id) ==
  /\ handled < MaxRequests
  /\ handled' = handled + 1
  /\ lastToggle' = ForgetToggle("categories", id)
  /\ IF FindIndex(categories, id) = 0 THEN
       /\ response' = Reply(404, "Category not found", <<>>, <<>>, <<>>)
       /\ UNCHANGED <<categories, branches, now, usedCategoryIds, usedBranchIds>>
     ELSE
       /\ categories' = Splice(categories, FindIndex(categories, id))
       /\ response' = Reply(200, "Category deleted successfully", <<>>, <<>>, <<>>)
       /\ UNCHANGED <<branches, now, usedCategoryIds, usedBranchIds>>

\* Toggled that deactivates instead of flipping (isActive = false).
ToggledOff(rec, t) ==
  [rec EXCEPT !.isActive = FALSE, !.updatedAt = ToISOString(t)]

\* categories[categoryIndex].isActive = !...; .updatedAt = new Date().toISOString()
Toggled(rec, t) ==
  [rec EXCEPT !.isActive = ~rec.isActive, !.updatedAt = ToISOString(t)]

\* PATCH /categories/:id/toggle-status
ToggleCategoryStatus(id) ==
  /\ handled < MaxRequests
  /\ handled' = handled + 1
  /\ IF FindIndex(categories, id) = 0 THEN
       /\ response' = Reply(404, "Category not found", <<>>, <<>>, <<>>)
       /\ lastToggle' = ForgetToggle("categories", id)
       /\ UNCHANGED <<categories, branches, now, usedCategoryIds, usedBranchIds>>
     ELSE
       /\ categories' = [categories EXCEPT ![FindIndex(categories, id)] = Toggled(@, now)]
       /\ response' = Reply(200,
            IF Toggled(categories[FindIndex(categories, id)], now).isActive
            THEN "Category activated successfully"
            ELSE "Category deactivated successfully",
            <<>>, <<Toggled(categories[FindIndex(categories, id)], now)>>, <<>>)
       /\ lastToggle' = <<[reg |-> "categories", id |-> id,
                           was |-> categories[FindIndex(categories, id)].isActive]>>
       /\ UNCHANGED <<branches, now, usedCategoryIds, usedBranchIds>>

\* -------------------------------------------------------------- branches
\* .isEmail(): local@domain with exactly one '@', a non-empty local part, and
\* a domain of two or more non-empty dot-separated labels, the last one of
\* at least two letters.
Letters == LowerLetters \cup DOMAIN UpperToLower

IsEmail(s) ==
  /\ Cardinality({i \in 1..Len(s) : s[i] = "@"}) = 1
  /\ LET at == CHOOSE i \in 1..Len(s) : s[i] = "@"
         dots == {i \in (at + 1)..Len(s) : s[i] = "."}
     IN /\ at > 1
        /\ \A i \in 1..(at - 1) : s[i] \in Letters \cup Digits \cup {".", "_", "+", "-"}
        /\ \A i \in (at + 1)..Len(s) : s[i] \in Letters \cup Digits \cup {".", "-"}
        /\ dots # {}
        /\ \A i \in dots : i > at + 1 /\ i < Len(s) /\ (i + 1) \notin dots
        /\ \E i \in dots : /\ \A j \in dots : j <= i
                           /\ Len(s) - i >= 2
                           /\ \A j \in (i + 1)..Len(s) : s[j] \in Letters

\* GET /branches
ListBranches ==
  /\ handled < MaxRequests
  /\ handled' = handled + 1
  /\ response' = Reply(200, "", <<>>, FilterActive(branches),
                       <<Len(FilterActive(branches))>>)
  /\ UNCHANGED <<categories, branches, now, usedCategoryIds, usedBranchIds,
                 lastToggle>>

\* GET /branches/all
ListAllBranches ==
  /\ handled < MaxRequests
  /\ handled' = handled + 1
  /\ response' = Reply(200, "", <<>>, branches, <<Len(branches)>>)
  /\ UNCHANGED <<categories, branches, now, usedCategoryIds, usedBranchIds,
                 lastToggle>>

\* GET /branches/:id: the reply
GetBranchReply(coll, id) ==
  IF FindIndex(coll, id) = 0
  THEN Reply(404, "Branch not found", <<>>, <<>>, <<>>)
  ELSE Reply(200, "", <<>>, <<coll[FindIndex(coll, id)]>>, <<>>)

GetBranch(id) ==
  /\ handled < MaxRequests
  /\ handled' = handled + 1
  /\ response' = GetBranchReply(branches, id)
  /\ lastToggle' = ForgetToggle("branches", id)
  /\ UNCHANGED <<categories, branches, now, usedCategoryIds, usedBranchIds>>

\* The chains the POST and PUT of branches share: description, address,
\* phone, email.
BranchOptionalErrors(body) ==
  OptionalFalsy(body.description,
    Check(IsLengthMax(body.description, 500), "description",
          "Description cannot exceed 500 characters"))
  \o OptionalFalsy(body.address,
       Check(IsLengthMax(body.address, 200), "address",
             "Address cannot exceed 200 characters"))
  \o OptionalFalsy(body.phone,
       Check(IsLengthMax(body.phone, 20), "phone",
             "Phone number cannot exceed 20 characters"))
  \o OptionalFalsy(body.email,
       Check(IsEmail(body.email), "email", "Invalid email format"))

\* POST /branches: the validation chains
CreateBranchErrors(body) ==
  Check(NotEmpty(body.name), "name", "Branch name is required")
  \o Check(IsLengthMax(body.name, 100), "name",
           "Branch name cannot exceed 100 characters")
  \o BranchOptionalErrors(body)

\* branches.some(branch => branch.name.toLowerCase() === name.toLowerCase())
BranchNameExists(coll, name) ==
  \E i \in 1..Len(coll) : ToLowerCase(coll[i].name) = ToLowerCase(name)

\* const newBranch = {...}
NewBranch(body, t0, t1, t2) ==
  [_id |-> ToString(t0),
   name |-> body.name,
   description |-> OrUndefined(body.description),
   address |-> OrUndefined(body.address),
   phone |-> OrUndefined(body.phone),
   email |-> OrUndefined(body.email),
   isActive |-> TRUE,
   createdAt |-> ToISOString(t1),
   updatedAt |-> ToISOString(t2)]

\* POST /branches
CreateBranch(body) ==
  /\ handled < MaxRequests
  /\ handled' = handled + 1
  /\ IF CreateBranchErrors(body) # <<>> THEN
       /\ response' = Reply(400, "Validation failed", CreateBranchErrors(body), <<>>, <<>>)
       /\ UNCHANGED <<categories, branches, now, usedCategoryIds, usedBranchIds,
                      lastToggle>>
     ELSE IF BranchNameExists(branches, body.name) THEN
       /\ response' = Reply(400, "Branch name already exists", <<>>, <<>>, <<>>)
       /\ UNCHANGED <<categories, branches, now, usedCategoryIds, usedBranchIds,
                      lastToggle>>
     ELSE
       /\ \E t1 \in now..MaxTime : \E t2 \in t1..MaxTime :
            /\ branches' = Append(branches, NewBranch(body, now, t1, t2))
            /\ response' = Reply(201, "Branch created successfully", <<>>,
                                 <<NewBranch(body, now, t1, t2)>>, <<>>)
            /\ now' = t2
       /\ usedBranchIds' = usedBranchIds \cup {ToString(now)}
       /\ UNCHANGED <<categories, usedCategoryIds, lastToggle>>

\* PUT /branches/:id: the validation chains
UpdateBranchErrors(body) ==
  Optional(body.name,
    Check(NotEmpty(body.name), "name", "Branch name cannot be empty")
    \o Check(IsLengthMax(body.name, 100), "name",
             "Branch name cannot exceed 100 characters"))
  \o BranchOptionalErrors(body)

\* name && branches.some(branch =>
\*   branch.name.toLowerCase() === name.toLowerCase() && branch._id !== req.params.id)
BranchNameTaken(coll, id, name) ==
  /\ Truthy(name)
  /\ \E i \in 1..Len(coll) :
       ToLowerCase(coll[i].name) = ToLowerCase(name) /\ coll[i]._id # id

\* const updatedBranch = {...}
UpdatedBranch(branch, body, t) ==
  [_id |-> branch._id,
   name |-> IF Truthy(body.name) THEN body.name ELSE branch.name,
   description |-> IF body.description # Undefined THEN body.description
                   ELSE branch.description,
   address |-> IF body.address # Undefined THEN body.address ELSE branch.address,
   phone |-> IF body.phone # Undefined THEN body.phone ELSE branch.phone,
   email |-> IF body.email # Undefined THEN body.email ELSE branch.email,
   isActive |-> branch.isActive,
   createdAt |-> branch.createdAt,
   updatedAt |-> ToISOString(t)]

\* PUT /branches/:id
UpdateBranch(id, body) ==
  /\ handled < MaxRequests
  /\ handled' = handled + 1
  /\ lastToggle' = ForgetToggle("branches", id)
  /\ IF UpdateBranchErrors(body) # <<>> THEN
       /\ response' = Reply(400, "Validation failed", UpdateBranchErrors(body), <<>>, <<>>)
       /\ UNCHANGED <<categories, branches, now, usedCategoryIds, usedBranchIds>>
     ELSE IF FindIndex(branches, id) = 0 THEN
       /\ response' = Reply(404, "Branch not found", <<>>, <<>>, <<>>)
       /\ UNCHANGED <<categories, branches, now, usedCategoryIds, usedBranchIds>>
     ELSE IF BranchNameTaken(branches, id, body.name) THEN
       /\ response' = Reply(400, "Branch name already exists", <<>>, <<>>, <<>>)
       /\ UNCHANGED <<categories, branches, now, usedCategoryIds, usedBranchIds>>
     ELSE
       /\ branches' = [branches EXCEPT ![FindIndex(branches, id)] =
                         UpdatedBranch(@, body, now)]
       /\ response' = Reply(200, "Branch updated successfully", <<>>,
                            <<UpdatedBranch(branches[FindIndex(branches, id)], body, now)>>,
                            <<>>)
       /\ UNCHANGED <<categories, now, usedCategoryIds, usedBranchIds>>

\* DELETE /branches/:id
DeleteBranch(id) ==
  /\ handled < MaxRequests
  /\ handled' = handled + 1
  /\ lastToggle' = ForgetToggle("branches", id)
  /\ IF FindIndex(branches, id) = 0 THEN
       /\ response' = Reply(404, "Branch not found", <<>>, <<>>, <<>>)
       /\ UNCHANGED <<categories, branches, now, usedCategoryIds, usedBranchIds>>
     ELSE
       /\ branches' = Splice(branches, FindIndex(branches, id))
       /\ response' = Reply(200, "Branch deleted successfully", <<>>, <<>>, <<>>)
       /\ UNCHANGED <<categories, now, usedCategoryIds, usedBranchIds>>

\* PATCH /branches/:id/toggle-status
ToggleBranchStatus(id) ==
  /\ handled < MaxRequests
  /\ handled' = handled + 1
  /\ IF FindIndex(branches, id) = 0 THEN
       /\ response' = Reply(404, "Branch not found", <<>>, <<>>, <<>>)
       /\ lastToggle' = ForgetToggle("branches", id)
       /\ UNCHANGED <<categories, branches, now, usedCategoryIds, usedBranchIds>>
     ELSE
       /\ branches' = [branches EXCEPT ![FindIndex(branches, id)] = Toggled(@, now)]
       /\ response' = Reply(200,
            IF Toggled(branches[FindIndex(branches, id)], now).isActive
            THEN "Branch activated successfully"
            ELSE "Branch deactivated successfully",
            <<>>, <<Toggled(branches[FindIndex(branches, id)], now)>>, <<>>)
       /\ lastToggle' = <<[reg |-> "branches", id |-> id,
                           was |-> branches[FindIndex(branches, id)].isActive]>>
       /\ UNCHANGED <<categories, now, usedCategoryIds, usedBranchIds>>

\* ------------------------------------------------------------- the clock
\* A millisecond passes between two requests.
Tick ==
  /\ now < MaxTime
  /\ now' = now + 1
  /\ UNCHANGED <<categories, branches, response, usedCategoryIds, usedBranchIds,
                 lastToggle, handled>>

\* ---------------------------------------------------------------- inputs
\* req.params.id: a seeded id, an id no record has, the ids Create can give.
ReqIds == {<<"1">>, <<"9">>} \cup {ToString(t) : t \in ServeStart..MaxTime}

CategoryBody(name, value, description) ==
  [name |-> name, value |-> value, description |-> description]

Snacks == <<"S","n","a","c","k","s">>
SnacksValue == <<"s","n","a","c","k","s">>
TeaValue == <<"t","e","a">>
FrozenValue == <<"f","r","o","z","e","n","-","p","r","o","d","u","c","t","s">>

\* req.body of the category requests
CategoryBodies ==
  {CategoryBody(Snacks, SnacksValue, <<"T","a","s","t","y">>),
   CategoryBody(Snacks, TeaValue, Undefined),
   CategoryBody(Snacks, FrozenValue, Undefined),
   CategoryBody(Undefined, Undefined, Undefined),
   CategoryBody(Undefined, Undefined, <<>>),
   CategoryBody(Snacks, Undefined, Undefined),
   CategoryBody(Undefined, TeaValue, Undefined),
   CategoryBody(Undefined, FrozenValue, Undefined),
   CategoryBody(Snacks, <<"U","P","P","E","R">>, Undefined),
   CategoryBody(Undefined, <<"H","a","s"," ","S","p","a","c","e","s">>, Undefined),
   CategoryBody(<<>>, <<>>, Undefined),
   CategoryBody(Repeat("x", 101), <<"H","a","s"," ","S","p","a","c","e","s">>, Repeat("x", 501))}

BranchBody(name, description, address, phone, email) ==
  [name |-> name, description |-> description, address |-> address,
   phone |-> phone, email |-> email]

Uptown == <<"U","p","t","o","w","n">>
Airport == <<"A","i","r","p","o","r","t">>
MainLower == <<"m","a","i","n"," ","b","r","a","n","c","h">>

\* req.body of the branch requests
BranchBodies ==
  {BranchBody(Uptown, <<"U","p"," ","t","h","e"," ","h","i","l","l">>, <<"1"," ","H","i","l","l"," ","R","o","a","d">>, <<"+","8","2","-","2","-","0","0","0","0">>, <<"u","p","@","t","o","w","n",".","c","o","m">>),
   BranchBody(Airport, Undefined, Undefined, Undefined, Undefined),
   BranchBody(MainLower, Undefined, Undefined, Undefined, Undefined),
   BranchBody(Undefined, Undefined, Undefined, Undefined, Undefined),
   BranchBody(Undefined, <<>>, Undefined, Undefined, Undefined),
   BranchBody(Undefined, Undefined, <<>>, <<>>, <<>>),
   BranchBody(Undefined, Undefined, Undefined, Undefined, <<"n","o","t","-","a","n","-","e","m","a","i","l">>),
   BranchBody(MainLower, Undefined, Undefined, Undefined, <<"n","o","t","-","a","n","-","e","m","a","i","l">>),
   BranchBody(Uptown, Undefined, Undefined, Undefined, <<"n","o","t","-","a","n","-","e","m","a","i","l">>),
   BranchBody(<<>>, Undefined, Undefined, Undefined, Undefined),
   BranchBody(Repeat("x", 101), Repeat("x", 501), Repeat("x", 201), Repeat("x", 21), <<"n","o","t","-","a","n","-","e","m","a","i","l">>)}

\* ------------------------------------------------------- specification
Init ==
  \E tickAt \in LoadTickAt :
    /\ categories = SeedCategories(tickAt)
    /\ branches = SeedBranches(tickAt)
    /\ now = ServeStart
    /\ response = NoReply
    /\ usedCategoryIds = {SeedCategories(tickAt)[i]._id : i \in 1..Len(SeedCategories(tickAt))}
    /\ usedBranchIds = {SeedBranches(tickAt)[i]._id : i \in 1..Len(SeedBranches(tickAt))}
    /\ lastToggle = <<>>
    /\ handled = 0
    /\ inflight = <<>>

Next ==
  \/ ListCategories /\ UNCHANGED inflight
  \/ ListAllCategories /\ UNCHANGED inflight
  \/ \E id \in ReqIds : GetCategory(id) /\ UNCHANGED inflight
  \/ \E body \in CategoryBodies : CreateCategory(body) /\ UNCHANGED inflight
  \/ \E id \in ReqIds : \E body \in CategoryBodies : UpdateCategory(id, body) /\ UNCHANGED inflight
  \/ \E id \in ReqIds : DeleteCategory(id) /\ UNCHANGED inflight
  \/ \E id \in ReqIds : ToggleCategoryStatus(id) /\ UNCHANGED inflight
  \/ ListBranches /\ UNCHANGED inflight
  \/ ListAllBranches /\ UNCHANGED inflight
  \/ \E id \in ReqIds : GetBranch(id) /\ UNCHANGED inflight
  \/ \E body \in BranchBodies : CreateBranch(body) /\ UNCHANGED inflight
  \/ \E id \in ReqIds : \E body \in BranchBodies : UpdateBranch(id, body) /\ UNCHANGED inflight
  \/ \E id \in ReqIds : DeleteBranch(id) /\ UNCHANGED inflight
  \/ \E id \in ReqIds : ToggleBranchStatus(id) /\ UNCHANGED inflight
  \/ Tick /\ UNCHANGED inflight

Spec == Init /\ [][Next]_vars

\* The same server and the same requests, FewRequests of them in a run.
NextFew ==
  \/ handled < FewRequests /\ ListCategories /\ UNCHANGED inflight
  \/ handled < FewRequests /\ ListAllCategories /\ UNCHANGED inflight
  \/ handled < FewRequests /\ \E id \in ReqIds : GetCategory(id) /\ UNCHANGED inflight
  \/ handled < FewRequests /\ \E body \in CategoryBodies : CreateCategory(body) /\ UNCHANGED inflight
  \/ handled < FewRequests
       /\ \E id \in ReqIds : \E body \in CategoryBodies : UpdateCategory(id, body) /\ UNCHANGED inflight
  \/ handled < FewRequests /\ \E id \in ReqIds : DeleteCategory(id) /\ UNCHANGED inflight
  \/ handled < FewRequests /\ \E id \in ReqIds : ToggleCategoryStatus(id) /\ UNCHANGED inflight
  \/ handled < FewRequests /\ ListBranches /\ UNCHANGED inflight
  \/ handled < FewRequests /\ ListAllBranches /\ UNCHANGED inflight
  \/ handled < FewRequests /\ \E id \in ReqIds : GetBranch(id) /\ UNCHANGED inflight
  \/ handled < FewRequests /\ \E body \in BranchBodies : CreateBranch(body) /\ UNCHANGED inflight
  \/ handled < FewRequests
       /\ \E id \in ReqIds : \E body \in BranchBodies : UpdateBranch(id, body) /\ UNCHANGED inflight
  \/ handled < FewRequests /\ \E id \in ReqIds : DeleteBranch(id) /\ UNCHANGED inflight
  \/ handled < FewRequests /\ \E id \in ReqIds : ToggleBranchStatus(id) /\ UNCHANGED inflight
  \/ Tick /\ UNCHANGED inflight

SpecFew == Init /\ [][NextFew]_vars

\* ------------------------------------------------------ concurrent callers
\* Several callers: a request is received and passes the middleware of its
\* route (authenticate, requireAdmin, the validators, which are asynchronous)
\* while others are in the same position; the handlers of the requests
\* received then run in any order, one at a time.  A handler has no await:
\* once started it runs to its response without yielding to another.
Request(op, id, body) == [op |-> op, id |-> id, body |-> body]

\* The requests of the callers: the Creates with valid fields, and the
\* Updates with the same fields of the ids a Create can give.
ConcurrentRequests ==
  {Request("CreateCategory", Undefined, body) :
     body \in {b \in CategoryBodies : CreateCategoryErrors(b) = <<>>}}
  \cup {Request("UpdateCategory", ToString(t), body) :
          t \in ServeStart..MaxTime,
          body \in {b \in CategoryBodies : CreateCategoryErrors(b) = <<>>}}
  \cup {Request("CreateBranch", Undefined, body) :
          body \in {b \in BranchBodies : CreateBranchErrors(b) = <<>>}}
  \cup {Request("UpdateBranch", ToString(t), body) :
          t \in ServeStart..MaxTime,
          body \in {b \in BranchBodies : CreateBranchErrors(b) = <<>>}}

\* The request is received: its handler is yet to run.
Receive(req) ==
  /\ Len(inflight) < MaxInflight
  /\ handled + Len(inflight) < MaxRequests
  /\ inflight' = Append(inflight, req)
  /\ UNCHANGED <<categories, branches, now, response, usedCategoryIds, usedBranchIds,
                 lastToggle, handled>>

\* The handler of a request, from its first statement to its response.
Handler(req) ==
  \/ req.op = "CreateCategory" /\ CreateCategory(req.body)
  \/ req.op = "UpdateCategory" /\ UpdateCategory(req.id, req.body)
  \/ req.op = "CreateBranch" /\ CreateBranch(req.body)
  \/ req.op = "UpdateBranch" /\ UpdateBranch(req.id, req.body)

\* The handler of the n-th waiting request runs.
Run(n) ==
  /\ Handler(inflight[n])
  /\ inflight' = Splice(inflight, n)

NextConcurrent ==
  \/ \E req \in ConcurrentRequests : Receive(req)
  \/ \E n \in 1..Len(inflight) : Run(n)
  \/ Tick /\ UNCHANGED inflight

SpecConcurrent == Init /\ [][NextConcurrent]_vars


\* ---------------------------------------------------------------- claims
\* Two texts equal up to the case of their letters.
CaseInsensitiveEqual(a, b) ==
  /\ Len(a) = Len(b)
  /\ \A i \in 1..Len(a) :
       \/ a[i] = b[i]
       \/ a[i] \in DOMAIN UpperToLower /\ UpperToLower[a[i]] = b[i]
       \/ b[i] \in DOMAIN UpperToLower /\ UpperToLower[b[i]] = a[i]

\* A step that handles a request (the clock's ticks handle none).
Handles == handled' # handled

\* C1: in every reachable state no two category records, active or
\* inactive, have the same value.
C1_CategoryValuesUnique ==
  \A i, j \in 1..Len(categories) :
    i # j => categories[i].value # categories[j].value

\* C2: in every reachable state no two branch records, active or inactive,
\* have names that are equal when compared case-insensitively.
C2_BranchNamesUnique ==
  \A i, j \in 1..Len(branches) :
    i # j => ~CaseInsensitiveEqual(branches[i].name, branches[j].name)

\* C3: the id a successful Create gives to the new record is the id of no
\* record created before in that registry, seeded and deleted ones included.
C3_CreatedIdsFresh ==
  [][(Handles /\ response'.status = 201) =>
       /\ Len(categories') > Len(categories) =>
            categories'[Len(categories')]._id \notin usedCategoryIds
       /\ Len(branches') > Len(branches) =>
            branches'[Len(branches')]._id \notin usedBranchIds]_vars

\* C4: a request that ends in ValidationFailed, Conflict or NotFound (status
\* 400 or 404), a Create or an Update in particular, leaves both collections
\* as they were: same records, same order, every field unchanged.
C4_FailedRequestChangesNothing ==
  [][(Handles /\ response'.status \in {400, 404}) =>
       /\ categories' = categories
       /\ branches' = branches]_vars

\* The first request was refused as a conflict, and the collection is the
\* seeded one.
C4_Witness ==
  /\ response.message = "Category value already exists"
  /\ handled = 1
  /\ \E tickAt \in LoadTickAt : categories = SeedCategories(tickAt)

\* C5: an Update that supplies only description = '' empties the description
\* of the record it resolves and keeps its name and value; an Update that
\* supplies nothing changes no field of that record but updatedAt.
C5_UpdateIsPartialMerge ==
  [][(Handles /\ response'.status = 200) =>
       \A id \in ReqIds :
         LET i == FindIndex(categories, id)
             k == FindIndex(branches, id)
         IN /\ UpdateCategory(id, CategoryBody(Undefined, Undefined, <<>>)) =>
                 /\ categories'[i].description = <<>>
                 /\ categories'[i].name = categories[i].name
                 /\ categories'[i].value = categories[i].value
            /\ UpdateCategory(id, CategoryBody(Undefined, Undefined, Undefined)) =>
                 [categories'[i] EXCEPT !.updatedAt = categories[i].updatedAt]
                   = categories[i]
            /\ UpdateBranch(id, BranchBody(Undefined, <<>>, Undefined, Undefined, Undefined)) =>
                 /\ branches'[k].description = <<>>
                 /\ branches'[k].name = branches[k].name
            /\ UpdateBranch(id, BranchBody(Undefined, Undefined, Undefined, Undefined, Undefined)) =>
                 [branches'[k] EXCEPT !.updatedAt = branches[k].updatedAt]
                   = branches[k]]_vars

\* Category '1' was updated: its description is empty, its name and value
\* are the seeded ones.
C5_Witness ==
  /\ response.message = "Category updated successfully"
  /\ response.records = <<categories[1]>>
  /\ categories[1]._id = <<"1">>
  /\ categories[1].description = <<>>
  /\ categories[1].name = SeedCategories(0)[1].name
  /\ categories[1].value = SeedCategories(0)[1].value

\* C6: a successful toggle negates isActive of the record it resolves, and a
\* second successful toggle on the same id, with no other request on that
\* id in between, gives isActive the value it had before the first.
C6_ToggleTwiceRestores ==
  [][(Handles /\ response'.status = 200) =>
       \A id \in ReqIds :
         /\ ToggleCategoryStatus(id) =>
              LET i == FindIndex(categories, id)
              IN /\ categories'[i].isActive = ~categories[i].isActive
                 /\ (lastToggle # <<>> /\ lastToggle[1].reg = "categories"
                       /\ lastToggle[1].id = id)
                      => categories'[i].isActive = lastToggle[1].was
         /\ ToggleBranchStatus(id) =>
              LET k == FindIndex(branches, id)
              IN /\ branches'[k].isActive = ~branches[k].isActive
                 /\ (lastToggle # <<>> /\ lastToggle[1].reg = "branches"
                       /\ lastToggle[1].id = id)
                      => branches'[k].isActive = lastToggle[1].was]_vars

\* Category '1' was toggled off and on again.
C6_Witness ==
  /\ lastToggle = <<[reg |-> "categories", id |-> <<"1">>, was |-> FALSE]>>
  /\ response.message = "Category activated successfully"
  /\ categories[1]._id = <<"1">>
  /\ categories[1].isActive

\* C7: every successful toggle sets updatedAt of the record it resolves to a
\* value strictly greater than the one the record had before.
C7_ToggleAdvancesUpdatedAt ==
  [][(Handles /\ response'.status = 200) =>
       \A id \in ReqIds :
         /\ ToggleCategoryStatus(id) =>
              StrLess(categories[FindIndex(categories, id)].updatedAt,
                      categories'[FindIndex(categories, id)].updatedAt)
         /\ ToggleBranchStatus(id) =>
              StrLess(branches[FindIndex(branches, id)].updatedAt,
                      branches'[FindIndex(branches, id)].updatedAt)]_vars

\* C8: after a successful Delete(id), GetByID(id) in that registry answers
\* NotFound.
C8_DeletedIdNotFound ==
  [][(Handles /\ response'.status = 200) =>
       \A id \in ReqIds :
         /\ DeleteCategory(id) => GetCategoryReply(categories', id).status = 404
         /\ DeleteBranch(id) => GetBranchReply(branches', id).status = 404]_vars

\* The indexes of the active records of a collection, and the n-th of them.
ActiveIndexes(coll) == {j \in 1..Len(coll) : coll[j].isActive}

NthActive(coll, n) ==
  CHOOSE j \in ActiveIndexes(coll) :
    Cardinality({m \in ActiveIndexes(coll) : m <= j}) = n

\* A reply that lists exactly the active records of coll, in their order,
\* with total their number.
ListsActive(reply, coll) ==
  /\ reply.status = 200
  /\ reply.total = <<Cardinality(ActiveIndexes(coll))>>
  /\ Len(reply.records) = Cardinality(ActiveIndexes(coll))
  /\ \A n \in 1..Len(reply.records) : reply.records[n] = coll[NthActive(coll, n)]

\* C9: ListActive answers exactly the records whose isActive is true, with
\* total their number, and GetByID on the id of an inactive record answers
\* that record.
C9_ListActiveIsTheActiveRecords ==
  [][Handles =>
       /\ ListCategories => ListsActive(response', categories)
       /\ ListBranches => ListsActive(response', branches)
       /\ \A j \in 1..Len(categories') :
            ~categories'[j].isActive =>
              GetCategoryReply(categories', categories'[j]._id).records
                = <<categories'[j]>>
       /\ \A j \in 1..Len(branches') :
            ~branches'[j].isActive =>
              GetBranchReply(branches', branches'[j]._id).records
                = <<branches'[j]>>]_vars

\* Category '1' is inactive and the list answered last holds the other four.
C9_Witness ==
  /\ Len(categories) = 5
  /\ ~categories[1].isActive
  /\ response.total = <<4>>
  /\ response.records = SubSeq(categories, 2, 5)

\* C10 as stated: a Create whose value (name, for a branch) is that of a
\* record of the collection always fails with Conflict.
C10_DuplicateCreateConflicts ==
  [][Handles =>
       /\ \A body \in CategoryBodies :
            ((\E i \in 1..Len(categories) : categories[i].value = body.value)
               /\ CreateCategory(body))
              => response'.message = "Category value already exists"
       /\ \A body \in BranchBodies :
            ((\E i \in 1..Len(branches) :
                 CaseInsensitiveEqual(branches[i].name, body.name))
               /\ CreateBranch(body))
              => response'.message = "Branch name already exists"]_vars

\* C10 as amended: such a Create always fails and adds no record, with
\* ValidationFailed when a field of the request is invalid and with Conflict
\* otherwise, whether the record holding the key is active or inactive.
C10_DuplicateCreateFails ==
  [][Handles =>
       /\ \A body \in CategoryBodies :
            ((\E i \in 1..Len(categories) : categories[i].value = body.value)
               /\ CreateCategory(body))
              => /\ response'.status = 400
                 /\ categories' = categories
                 /\ response'.message =
                      IF CreateCategoryErrors(body) # <<>> THEN "Validation failed"
                      ELSE "Category value already exists"
       /\ \A body \in BranchBodies :
            ((\E i \in 1..Len(branches) :
                 CaseInsensitiveEqual(branches[i].name, body.name))
               /\ CreateBranch(body))
              => /\ response'.status = 400
                 /\ branches' = branches
                 /\ response'.message =
                      IF CreateBranchErrors(body) # <<>> THEN "Validation failed"
                      ELSE "Branch name already exists"]_vars

\* Category '1' was toggled inactive, and the Create that followed was
\* refused as a conflict (its value is the only one a request repeats).
C10_Witness ==
  /\ handled = 2
  /\ response.message = "Category value already exists"
  /\ \E tickAt \in LoadTickAt :
       categories = [SeedCategories(tickAt) EXCEPT
                       ![1] = [@ EXCEPT !.isActive = FALSE,
                                        !.updatedAt = categories[1].updatedAt]]

\* No record of coll has updatedAt before its createdAt.
TimestampsOrdered(coll) ==
  \A i \in 1..Len(coll) : ~StrLess(coll[i].updatedAt, coll[i].createdAt)

IllFormedValue(value) ==
  /\ value # Undefined
  /\ \/ value = <<>>
     \/ \E i \in 1..Len(value) :
          value[i] \notin {"a","b","c","d","e","f","g","h","i","j","k","l","m",
                           "n","o","p","q","r","s","t","u","v","w","x","y","z",
                           "0","1","2","3","4","5","6","7","8","9","-"}

IllFormedEmail(email) ==
  /\ email # Undefined
  /\ email # <<>>
  /\ \A i \in 1..Len(email) : email[i] # "@"

\* A reply that refuses the request as invalid, with an entry for the field.
RefusedAsInvalid(reply, path) ==
  /\ reply.status = 400
  /\ reply.message = "Validation failed"
  /\ \E n \in 1..Len(reply.errors) : reply.errors[n].path = path

\* The requests of the model that carry such a field.
IllFormedValueBodies == {b \in CategoryBodies : IllFormedValue(b.value)}

IllFormedEmailBodies == {b \in BranchBodies : IllFormedEmail(b.email)}

\* C12: a Create or an Update that supplies an ill-formed category value,
\* or a non-empty branch e-mail that is not an address, is answered
\* ValidationFailed whatever the id and the collection are (so neither
\* NotFound nor Conflict is answered), and writes nothing.
C12_IllFormedFieldIsRefused ==
  [][Handles =>
       /\ \A body \in IllFormedValueBodies :
            (CreateCategory(body) \/ \E id \in ReqIds : UpdateCategory(id, body))
              => /\ RefusedAsInvalid(response', "value")
                 /\ categories' = categories
       /\ \A body \in IllFormedEmailBodies :
            (CreateBranch(body) \/ \E id \in ReqIds : UpdateBranch(id, body))
              => /\ RefusedAsInvalid(response', "email")
                 /\ branches' = branches]_vars

\* The first request carried a value with a character outside the pattern
\* and nothing else invalid: it was refused with that one entry, the
\* collection is the seeded one.
C12_Witness ==
  /\ handled = 1
  /\ response.message = "Validation failed"
  /\ response.errors =
       <<[path |-> "value",
          msg |-> "Category value must contain only lowercase letters, numbers, and hyphens"]>>
  /\ \E tickAt \in LoadTickAt : categories = SeedCategories(tickAt)

\* The fields of a request that violate their constraint: name is required
\* on Create (on Update only when supplied), non-empty, of at most 100
\* characters; value is required on Create and well formed; description,
\* address and phone, when not empty, have at most 500, 200 and 20
\* characters; a non-empty e-mail is an address.
TooLong(s, max) == s # Undefined /\ Len(s) > max

NameViolated(name, required) ==
  \/ required /\ name = Undefined
  \/ name = <<>>
  \/ TooLong(name, 100)

CategoryViolations(body, required) ==
  {f \in {"name", "value", "description"} :
     \/ f = "name" /\ NameViolated(body.name, required)
     \/ f = "value" /\ ((required /\ body.value = Undefined) \/ IllFormedValue(body.value))
     \/ f = "description" /\ TooLong(body.description, 500)}

BranchViolations(body, required) ==
  {f \in {"name", "description", "address", "phone", "email"} :
     \/ f = "name" /\ NameViolated(body.name, required)
     \/ f = "description" /\ TooLong(body.description, 500)
     \/ f = "address" /\ TooLong(body.address, 200)
     \/ f = "phone" /\ TooLong(body.phone, 20)
     \/ f = "email" /\ IllFormedEmail(body.email)}

\* C13: a Create or an Update that violates the constraints of one or of
\* several fields at once is answered with one ValidationFailed reply whose
\* error list has an entry for every field that violates its constraint.
C13_EveryViolatedFieldIsListed ==
  [][Handles =>
       /\ \A body \in CategoryBodies :
            /\ CreateCategory(body) =>
                 \A f \in CategoryViolations(body, TRUE) : RefusedAsInvalid(response', f)
            /\ (\E id \in ReqIds : UpdateCategory(id, body)) =>
                 \A f \in CategoryViolations(body, FALSE) : RefusedAsInvalid(response', f)
       /\ \A body \in BranchBodies :
            /\ CreateBranch(body) =>
                 \A f \in BranchViolations(body, TRUE) : RefusedAsInvalid(response', f)
            /\ (\E id \in ReqIds : UpdateBranch(id, body)) =>
                 \A f \in BranchViolations(body, FALSE) : RefusedAsInvalid(response', f)]_vars

\* A request with a name, a value and a description all out of bounds was
\* refused, and the reply lists the three fields.
C13_Witness ==
  /\ response.message = "Validation failed"
  /\ {response.errors[n].path : n \in 1..Len(response.errors)}
       = {"name", "value", "description"}

\* C14: in every reachable state every category record has label equal to
\* its name (the seeded ones, the ones Create adds and the ones Update
\* renames).
C14_LabelIsName ==
  \A i \in 1..Len(categories) : categories[i].label = categories[i].name

\* Category '1' was renamed by an Update: name and label are the new name.
C14_Witness ==
  /\ response.message = "Category updated successfully"
  /\ categories[1]._id = <<"1">>
  /\ categories[1].name = Snacks
  /\ categories[1].label = Snacks

\* after is before with the record at index i rewritten and nothing else
\* touched; after is before without the record at index i, the others in
\* their order.
OnlyRewrites(before, after, i) ==
  /\ Len(after) = Len(before)
  /\ \A j \in 1..Len(before) : j # i => after[j] = before[j]

OnlyRemoves(before, after, i) ==
  /\ Len(after) = Len(before) - 1
  /\ \A j \in 1..Len(after) : after[j] = IF j < i THEN before[j] ELSE before[j + 1]

KeepsIdentity(before, after) ==
  /\ after._id = before._id
  /\ after.createdAt = before.createdAt
  /\ after.isActive = before.isActive

\* No record of before has another isActive in after, at the same place.
KeepsActivation(before, after) ==
  \A j \in 1..Len(before) : j <= Len(after) => after[j].isActive = before[j].isActive

\* C15: a successful Update keeps _id, createdAt and isActive of the record
\* it resolves; a successful Update, toggle or Delete leaves every other
\* record of its collection, and the order of the records that remain, as
\* they were, and leaves the other collection alone; isActive of a record
\* changes in no step but a toggle (or the Delete that moves the records
\* behind the removed one up by one place).
C15_OnlyTheTargetChanges ==
  [][Handles =>
       /\ (response'.status = 200 /\ response'.message # "") =>
            \A id \in ReqIds :
              LET i == FindIndex(categories, id)
                  k == FindIndex(branches, id)
              IN /\ (\E body \in CategoryBodies : UpdateCategory(id, body)) =>
                      /\ OnlyRewrites(categories, categories', i)
                      /\ KeepsIdentity(categories[i], categories'[i])
                      /\ branches' = branches
                 /\ ToggleCategoryStatus(id) =>
                      OnlyRewrites(categories, categories', i) /\ branches' = branches
                 /\ DeleteCategory(id) =>
                      OnlyRemoves(categories, categories', i) /\ branches' = branches
                 /\ (\E body \in BranchBodies : UpdateBranch(id, body)) =>
                      /\ OnlyRewrites(branches, branches', k)
                      /\ KeepsIdentity(branches[k], branches'[k])
                      /\ categories' = categories
                 /\ ToggleBranchStatus(id) =>
                      OnlyRewrites(branches, branches', k) /\ categories' = categories
                 /\ DeleteBranch(id) =>
                      OnlyRemoves(branches, branches', k) /\ categories' = categories
       /\ \/ KeepsActivation(categories, categories')
          \/ \E id \in ReqIds : ToggleCategoryStatus(id) \/ DeleteCategory(id)
       /\ \/ KeepsActivation(branches, branches')
          \/ \E id \in ReqIds : ToggleBranchStatus(id) \/ DeleteBranch(id)]_vars

\* A category was created and the seeded category '1' was then deleted: the
\* four other seeds and the created record remain, in that order.
C15_Witness ==
  /\ response.message = "Category deleted successfully"
  /\ Len(categories) = 5
  /\ \E tickAt \in LoadTickAt :
       SubSeq(categories, 1, 4) = SubSeq(SeedCategories(tickAt), 2, 5)
  /\ categories[5].value = TeaValue

\* C16: an Update with valid fields that supplies the value the record it
\* resolves already has (for a branch, a name equal to its own up to case),
\* held by no other record, succeeds; one that supplies the value (the name,
\* up to case) of a different record of the collection fails with Conflict.
C16_UpdateExcludesOnlyItself ==
  [][(Handles /\ response'.status \in {200, 400}) =>
       \A id \in ReqIds :
         LET i == FindIndex(categories, id)
             k == FindIndex(branches, id)
         IN /\ i # 0 =>
                 \A body \in {b \in CategoryBodies :
                                Truthy(b.value) /\ CategoryViolations(b, FALSE) = {}} :
                   LET others == {j \in 1..Len(categories) :
                                    j # i /\ categories[j].value = body.value}
                   IN ((others # {} \/ categories[i].value = body.value)
                         /\ UpdateCategory(id, body))
                        => IF others # {}
                           THEN response'.message = "Category value already exists"
                           ELSE response'.status = 200
            /\ k # 0 =>
                 \A body \in {b \in BranchBodies :
                                Truthy(b.name) /\ BranchViolations(b, FALSE) = {}} :
                   LET others == {j \in 1..Len(branches) :
                                    j # k /\ CaseInsensitiveEqual(branches[j].name, body.name)}
                   IN ((others # {} \/ CaseInsensitiveEqual(branches[k].name, body.name))
                         /\ UpdateBranch(id, body))
                        => IF others # {}
                           THEN response'.message = "Branch name already exists"
                           ELSE response'.status = 200]_vars

\* A Create that turned before into after and answered reply: after is
\* before with one record appended, the reply carries that record, which is
\* active and has createdAt equal to updatedAt.
AppendsFreshRecord(before, after, reply) ==
  /\ Len(after) = Len(before) + 1
  /\ SubSeq(after, 1, Len(before)) = before
  /\ reply.records = <<after[Len(after)]>>
  /\ after[Len(after)].isActive
  /\ after[Len(after)].createdAt = after[Len(after)].updatedAt

\* C17: every successful Create (status 201) returns and stores a record
\* with isActive true and createdAt equal to updatedAt, appended after all
\* the records the collection already had.
C17_CreateAppendsFreshRecord ==
  [][(Handles /\ response'.status = 201) =>
       /\ (\E body \in CategoryBodies : CreateCategory(body)) =>
            AppendsFreshRecord(categories, categories', response')
       /\ (\E body \in BranchBodies : CreateBranch(body)) =>
            AppendsFreshRecord(branches, branches', response')]_vars

\* C18: with several callers, whose requests wait together and whose
\* handlers run in any order, each handler checks and writes in one step,
\* and no order of the handlers reaches a state where two category records
\* have the same value or two branch records the same name up to case (two
\* Creates of one key having both succeeded, in particular).
C18_NoInterleavingDuplicatesKey ==
  /\ \A i, j \in 1..Len(categories) :
       i < j => categories[i].value # categories[j].value
  /\ \A i, j \in 1..Len(branches) :
       i < j => ~CaseInsensitiveEqual(branches[i].name, branches[j].name)

\* C19: Update looks at the fields first, then at the id, then at the key:
\* with a field that violates its constraint it answers ValidationFailed,
\* whether a record has the id or not; with valid fields and an id no
\* record has it answers NotFound, also when the value or the name it
\* supplies is the one of a record of the collection.
C19_UpdateChecksInOrder ==
  [][Handles =>
       \A id \in ReqIds :
         /\ \A body \in CategoryBodies :
              UpdateCategory(id, body) =>
                IF CategoryViolations(body, FALSE) # {}
                THEN response'.status = 400 /\ response'.message = "Validation failed"
                ELSE (\A j \in 1..Len(categories) : categories[j]._id # id)
                       => response'.status = 404 /\ response'.message = "Category not found"
         /\ \A body \in BranchBodies :
              UpdateBranch(id, body) =>
                IF BranchViolations(body, FALSE) # {}
                THEN response'.status = 400 /\ response'.message = "Validation failed"
                ELSE (\A k \in 1..Len(branches) : branches[k]._id # id)
                       => response'.status = 404 /\ response'.message = "Branch not found"]_vars

\* The first request was answered NotFound while the collection, the seeded
\* one, holds the value 'frozen-products' that an Update of the model
\* supplies, under an id that is not the one requested.
C19_Witness ==
  /\ handled = 1
  /\ response.status = 404
  /\ response.message = "Category not found"
  /\ \E tickAt \in LoadTickAt : categories = SeedCategories(tickAt)
  /\ \E j \in 1..Len(categories) : categories[j].value = FrozenValue

\* The records of coll that hold the category value v; the branch name n, up
\* to case.
HoldersOfValue(coll, v) == {j \in 1..Len(coll) : coll[j].value = v}

HoldersOfName(coll, n) == {j \in 1..Len(coll) : CaseInsensitiveEqual(coll[j].name, n)}

\* The Creates of the model whose fields are all valid.
ValidCategoryCreates == {b \in CategoryBodies : CategoryViolations(b, TRUE) = {}}

ValidBranchCreates == {b \in BranchBodies : BranchViolations(b, TRUE) = {}}

\* C20: a successful Delete removes the record it resolves for good, so that
\* its key is free unless another record holds it, and a Create with valid
\* fields whose key no record of the collection holds succeeds: after the
\* Delete, a Create with the key of the deleted record succeeds.
C20_DeleteReleasesKey ==
  [][Handles =>
       /\ response'.status = 200 =>
            \A id \in ReqIds :
              /\ DeleteCategory(id) =>
                   LET v == categories[FindIndex(categories, id)].value
                   IN /\ Cardinality(HoldersOfValue(categories', v))
                           = Cardinality(HoldersOfValue(categories, v)) - 1
                      /\ Len(categories') = Len(categories) - 1
              /\ DeleteBranch(id) =>
                   LET n == branches[FindIndex(branches, id)].name
                   IN /\ Cardinality(HoldersOfName(branches', n))
                           = Cardinality(HoldersOfName(branches, n)) - 1
                      /\ Len(branches') = Len(branches) - 1
       /\ \A body \in ValidCategoryCreates :
            (HoldersOfValue(categories, body.value) = {} /\ CreateCategory(body))
              => /\ response'.status = 201
                 /\ HoldersOfValue(categories', body.value) = {Len(categories')}
       /\ \A body \in ValidBranchCreates :
            (HoldersOfName(branches, body.name) = {} /\ CreateBranch(body))
              => /\ response'.status = 201
                 /\ HoldersOfName(branches', body.name) = {Len(branches')}]_vars

\* The seeded category '1' ('frozen-products') was deleted and a Create with
\* that value then succeeded: the four other seeds, then the new record.
C20_Witness ==
  /\ handled = 2
  /\ response.message = "Category created successfully"
  /\ Len(categories) = 5
  /\ \E tickAt \in LoadTickAt :
       SubSeq(categories, 1, 4) = SubSeq(SeedCategories(tickAt), 2, 5)
  /\ categories[5].value = FrozenValue

====
